---- MODULE Spec2Model ----
(***************************************************************************)
(* State-machine model of the hubble-tldm provisioning pipeline:           *)
(*   - fetch_elf      (python/src/hubbledemo/elfmgr.py)                    *)
(*   - flash_elf      (python/src/hubbledemo/elfmgr.py)                    *)
(*   - provision_key  (provision_key.py)                                   *)
(*   - patch_elf, _patch_symbol (python/src/hubbledemo/elfmgr.py)          *)
(*   - flash command, main      (python/src/hubbledemo/cli.py)             *)
(* One call of one of these operations is modelled per behaviour; the      *)
(* initial state chooses the operation and its inputs, the environment     *)
(* (HTTP server, debug probe, serial port) answers nondeterministically.   *)
(***************************************************************************)
EXTENDS Integers, Sequences, FiniteSets, TLC

VARIABLES
    f_pc,        \* fetch_elf: "idle" | "start" | "loop" | "done"
    f_env,       \* fetch_elf: [board, local_file, url_override] (argument and os.getenv values)
    f_url,       \* fetch_elf: the request URL, [base, file]
    f_attempt,   \* fetch_elf: loop variable `attempt`
    f_last_err,  \* fetch_elf: local `last_err`
    f_trace,     \* fetch_elf: history of requests.get calls and time.sleep calls
    f_result,    \* fetch_elf: [kind, body, cause]: returned bytes or raised exception
    fl_pc,       \* flash_elf: "idle" | "start" | "tmpfile" | "probe" | "open" | ... | "done"
    fl_args,     \* flash_elf: [buf, board]
    fl_device,   \* flash_elf: local `device`
    fl_tmp_path, \* flash_elf: local `tmp_path`
    fl_files,    \* flash_elf: the temporary files on disk, a set of [path, content]
    fl_opened,   \* flash_elf: jlink.opened()
    fl_trace,    \* flash_elf: history of the file-system and probe calls made
    fl_exc,      \* flash_elf: the exception in flight while the finally blocks run
    fl_result,   \* flash_elf: [kind, body, cause]: None returned or raised exception
    p_pc,        \* provision_key: "idle" | "reset" | "settle" | "key" | "open" | ... | "done"
    p_args,      \* provision_key: [key_string, base64_encoded, serial_port, device_type]
    p_key_data,  \* provision_key: local `key_data`, a sequence of bytes
    p_ser_open,  \* provision_key: whether the serial port `ser` is open
    p_i,         \* provision_key: number of bytes of the current loop already written
    p_utc_ms,    \* provision_key: local `utc_ms`
    p_frame,     \* provision_key: local `timestamp_frame`
    p_io,        \* provision_key: history of subprocess, sleep and serial calls
    p_exc,       \* provision_key: the exception in flight while the finally block runs
    p_result,    \* provision_key: how the run ended
    p_exit,      \* provision_key.py: the exit status of the process
    pt_pc,       \* patcher: "idle" | "patch_symbol" | "patch_elf" | "utc_time" | "done"
    pt_call,     \* patcher: the call made, [op, data, symbol_name, key]; op is
                 \* "_patch_symbol", "patch_elf" or "embed-key" (main of embed-key.py)
    pt_orig,     \* patcher: the bytes of the image before the call
    pt_buf,      \* patcher: the bytes of `buf`
    pt_utc_ms,   \* patch_elf: local `utc_ms`
    pt_log,      \* patcher: history of the _patch_symbol calls made
    pt_result,   \* patcher: "none" | "ok" | the kind of the error raised
    o_pc,        \* cli flash: "idle" | the step to call | "return" | "raise" | "done"
    o_device_key,\* cli flash: device.key of the registered device
    o_buf,       \* cli flash: the bytes of `buf`
    o_log,       \* cli flash: history of the steps called
    o_exit       \* cli main: the exit code returned

fetch_vars == <<f_pc, f_env, f_url, f_attempt, f_last_err, f_trace, f_result>>

flash_vars == <<fl_pc, fl_args, fl_device, fl_tmp_path, fl_files, fl_opened, fl_trace,
                fl_exc, fl_result>>

prov_vars == <<p_pc, p_args, p_key_data, p_ser_open, p_i, p_utc_ms, p_frame, p_io, p_exc,
               p_result, p_exit>>

patch_vars == <<pt_pc, pt_call, pt_orig, pt_buf, pt_utc_ms, pt_log, pt_result>>

orch_vars == <<o_pc, o_device_key, o_buf, o_log, o_exit>>

vars == <<fetch_vars, flash_vars, prov_vars, patch_vars, orch_vars>>

None == "None"

Max(a, b) == IF a >= b THEN a ELSE b

RECURSIVE Pow(_, _)
Pow(b, n) == IF n = 0 THEN 1 ELSE b * Pow(b, n - 1)

(***************************************************************************)
(* Bounds of the model.                                                    *)
(***************************************************************************)
\* response bodies and local file contents are 0..MaxBody
MaxBody == 1
\* key strings are generated from the seeds 0..MaxSeed
MaxSeed == 1
\* the clock gives 0, present-day values, and 10^k - 1 and 10^k for k in 1..MaxPow
MaxPow == 2

(***************************************************************************)
(* fetch_elf                                                               *)
(***************************************************************************)
ELF_BASE_URL == "https://raw.githubusercontent.com/HubbleNetwork/hubble-tldm/master/merge"

RETRY_STATUS == {429, 500, 502, 503, 504}

retries == 5

\* `backoff` is read at elfmgr.py:236 and :253 but is bound nowhere (no
\* parameter, local, global or builtin of that name): reading it raises NameError.
BackoffBound == FALSE

\* Boards given to fetch_elf; BoardStripped is board.strip().
FetchBoards == {"nrf52dk", "unknown_board", "   "}
BoardStripped(board) == IF board = "   " THEN "" ELSE board

\* HUBBLE_DEMO_ELF_FILE: unset/empty, a readable file, a path that does not exist.
LocalFileValues == {"", "good.elf", "missing.elf"}
LocalFileReadable(path) == path = "good.elf"
LocalFileBytes(path) == MaxBody

\* HUBBLE_DEMO_ELF_URL_OVERRIDE: unset/empty or a mirror.
UrlOverrideValues == {"", "http://mirror.local/elf"}

\* Content-Type header values; "" is a response without the header.
ContentTypes == {"", "application/octet-stream", "text/html", "TEXT/HTML; charset=utf-8", "text/plain"}
\* "html" in ctype, without the .lower() of line 244
HasHtmlCaseSensitive(ctype) == ctype = "text/html"

\* "html" in ctype.lower()
HasHtml(ctype) == ctype \in {"text/html", "TEXT/HTML; charset=utf-8"}

HttpStatuses == {200, 403, 404} \cup RETRY_STATUS
TransportErrors == {"Timeout", "ConnectionError"}

\* What one requests.get call can produce: a response, or a raised transport error.
Responses ==
    [kind : {"http"}, status : HttpStatuses, ctype : ContentTypes, body : 0..MaxBody, err : {None}]
    \cup [kind : {"error"}, status : {0}, ctype : {""}, body : {0}, err : TransportErrors]

\* resp.raise_for_status(), raising for 5xx only
RaisesForStatus5xx(status) == status >= 500 /\ status < 600

\* resp.raise_for_status() raises HTTPError for 4xx and 5xx.
RaisesForStatus(status) == status >= 400 /\ status < 600

NoResult == [kind |-> "none", body |-> 0, cause |-> None]
Returned(body) == [kind |-> "bytes", body |-> body, cause |-> None]
Raised(exc, cause) == [kind |-> exc, body |-> 0, cause |-> cause]

RequestEvent(url, resp) == [ev |-> "request", url |-> url, resp |-> resp, sleep |-> 0]
\* sleep_s = backoff * (2 ** (attempt - 1)), recorded in units of backoff
SleepEvent(attempt) == [ev |-> "sleep", url |-> None, resp |-> None, sleep |-> Pow(2, attempt - 1)]

\* Faulty variant of FetchOutcome: 404 is not singled out and is handed to
\* raise_for_status like any other status.
FetchOutcomeNo404(resp, attempt) ==
    IF resp.kind = "error"
    THEN IF attempt < retries THEN "retry" ELSE "ConnectionError"
    ELSE IF resp.status \in RETRY_STATUS /\ attempt < retries THEN "retry"
    ELSE IF RaisesForStatus(resp.status) THEN "HTTPError"
    ELSE IF HasHtml(resp.ctype) THEN "ValueError"
    ELSE "bytes"

\* The branch one loop iteration takes for the outcome of requests.get (lines 227-259).
FetchOutcome(resp, attempt) ==
    IF resp.kind = "error"
    THEN IF attempt < retries THEN "retry" ELSE "ConnectionError"
    ELSE IF resp.status = 404 THEN "FileNotFoundError"
    ELSE IF resp.status \in RETRY_STATUS /\ attempt < retries THEN "retry"
    ELSE IF RaisesForStatus(resp.status) THEN "HTTPError"
    ELSE IF HasHtml(resp.ctype) THEN "ValueError"
    ELSE "bytes"

\* line 210 with the two overrides tested in the other order: the local file is
\* used only when no URL override is set
UsesLocalFileUnlessUrl(env) == env.local_file # "" /\ env.url_override = ""

\* Line 210: `if local_file:`
UsesLocalFile(env) == env.local_file # ""

FetchIdle ==
    /\ f_pc = "idle"
    /\ f_env = [board |-> None, local_file |-> "", url_override |-> ""]
    /\ f_url = None
    /\ f_attempt = 0
    /\ f_last_err = None
    /\ f_trace = <<>>
    /\ f_result = NoResult

FetchInit ==
    /\ f_pc = "start"
    /\ f_env \in [board : FetchBoards, local_file : LocalFileValues, url_override : UrlOverrideValues]
    /\ f_url = None
    /\ f_attempt = 0
    /\ f_last_err = None
    /\ f_trace = <<>>
    /\ f_result = NoResult

\* fetch_elf touches no state of the other operations.
FetchFrame == UNCHANGED <<flash_vars, prov_vars, patch_vars, orch_vars>>

\* Lines 205-206: the board argument is rejected when blank.
FetchRejectBoard ==
    /\ f_pc = "start"
    /\ BoardStripped(f_env.board) = ""
    /\ f_pc' = "done"
    /\ f_result' = Raised("ValueError", None)
    /\ UNCHANGED <<f_env, f_url, f_attempt, f_last_err, f_trace>>
    /\ FetchFrame

\* Lines 209-211: the local override is read, no request is made.
FetchLocalFile ==
    /\ f_pc = "start"
    /\ BoardStripped(f_env.board) # ""
    /\ UsesLocalFile(f_env)
    /\ f_pc' = "done"
    /\ f_result' = IF LocalFileReadable(f_env.local_file)
                   THEN Returned(LocalFileBytes(f_env.local_file))
                   ELSE Raised("FileNotFoundError", None)
    /\ UNCHANGED <<f_env, f_url, f_attempt, f_last_err, f_trace>>
    /\ FetchFrame

\* Lines 214-226: the URL is built and the retry loop entered.
FetchBuildUrl ==
    /\ f_pc = "start"
    /\ BoardStripped(f_env.board) # ""
    /\ ~UsesLocalFile(f_env)
    /\ f_url' = [base |-> IF f_env.url_override # "" THEN f_env.url_override ELSE ELF_BASE_URL,
                 file |-> <<f_env.board, ".elf">>]
    /\ f_attempt' = 1
    /\ f_pc' = "loop"
    /\ UNCHANGED <<f_env, f_last_err, f_trace, f_result>>
    /\ FetchFrame

\* The retry branch with the sleep made before the delay is computed: the call
\* sleeps once and then fails on the unbound name.
FetchRetrySleepsFirst(trace) ==
    /\ f_trace' = Append(trace, SleepEvent(f_attempt))
    /\ f_attempt' = f_attempt
    /\ f_pc' = "done"
    /\ f_result' = Raised("NameError", None)

\* Lines 236-238 and 253-255: compute the delay, sleep, continue with the next attempt;
\* line 262 when the loop runs out.
FetchRetry(trace) ==
    IF BackoffBound
    THEN /\ f_trace' = Append(trace, SleepEvent(f_attempt))
         /\ IF f_attempt + 1 <= Max(1, retries)
            THEN /\ f_attempt' = f_attempt + 1
                 /\ f_pc' = "loop"
                 /\ f_result' = f_result
            ELSE /\ f_attempt' = f_attempt
                 /\ f_pc' = "done"
                 /\ f_result' = Raised("ConnectionError", None)
    ELSE /\ f_trace' = trace
         /\ f_attempt' = f_attempt
         /\ f_pc' = "done"
         /\ f_result' = Raised("NameError", None)

\* Lines 227-259: one iteration of the loop, for one outcome of requests.get.
FetchAttempt ==
    /\ f_pc = "loop"
    /\ \E resp \in Responses :
         LET outcome == FetchOutcome(resp, f_attempt)
             trace == Append(f_trace, RequestEvent(f_url, resp))
         IN  /\ f_last_err' = IF resp.kind = "error" THEN resp.err ELSE f_last_err
             /\ CASE outcome = "retry" -> FetchRetry(trace)
                  [] outcome = "bytes" ->
                        /\ f_trace' = trace
                        /\ f_attempt' = f_attempt
                        /\ f_pc' = "done"
                        /\ f_result' = Returned(resp.body)
                  [] OTHER ->
                        /\ f_trace' = trace
                        /\ f_attempt' = f_attempt
                        /\ f_pc' = "done"
                        /\ f_result' = Raised(outcome, IF resp.kind = "error" THEN resp.err ELSE None)
    /\ UNCHANGED <<f_env, f_url>>
    /\ FetchFrame

(***************************************************************************)
(* flash_elf                                                               *)
(***************************************************************************)
BOARD_TO_JLINK_DEVICE ==
    [b \in {"nrf52dk", "nrf52840dk", "nrf21540dk", "xg24_ek2703a", "xg22_ek4108a", "lp_em_cc2340r5"} |->
        CASE b = "nrf52dk" -> "nRF52832_xxAA"
          [] b = "nrf52840dk" -> "nRF52840_xxAA"
          [] b = "nrf21540dk" -> "nRF52840_xxAA"
          [] b = "xg24_ek2703a" -> "EFR32MG24BxxxF1536"
          [] b = "xg22_ek4108a" -> "EFR32MG22CxxxF512"
          [] b = "lp_em_cc2340r5" -> "CC2340R5"]

speed_khz == 4000

\* Boards given to flash_elf, and board.strip().lower() of each.
FlashBoards == {"nrf52dk", " NRF52840DK ", "xg24_ek2703a", "unknown_board", "nrf9160dk"}
StripLower(board) == IF board = " NRF52840DK " THEN "nrf52840dk" ELSE board

\* _BOARD_TO_JLINK_DEVICE.get(key): the entry, or None without one.
DictGet(key) == IF key \in DOMAIN BOARD_TO_JLINK_DEVICE THEN BOARD_TO_JLINK_DEVICE[key] ELSE None

TmpPath == "tmp.elf"
\* content of a temporary file whose copy failed part-way
Truncated == "truncated"
FileContent(files, path) == (CHOOSE f \in files : f.path = path).content

Call(name, arg) == [call |-> name, arg |-> arg]

\* The probe calls with the image programmed before the core is halted.
ProbeSuccessorFlashFirst(step) ==
    CASE step = "open" -> "set_tif"
      [] step = "set_tif" -> "connect"
      [] step = "connect" -> "flash_file"
      [] step = "flash_file" -> "halt"
      [] step = "halt" -> "reset"
      [] step = "reset" -> "release"

\* The probe calls of the inner try block, in program order, and what follows each.
ProbeSuccessor(step) ==
    CASE step = "open" -> "set_tif"
      [] step = "set_tif" -> "connect"
      [] step = "connect" -> "halt"
      [] step = "halt" -> "flash_file"
      [] step = "flash_file" -> "reset"
      [] step = "reset" -> "release"

\* Faulty variant of AfterProbeCall: the connection is released at the end of the
\* try block only, so a failed call skips the release.
AfterProbeCallNoFinally(step, ok) == IF ok THEN ProbeSuccessor(step) ELSE "unlink"

\* try / except Exception / finally of lines 155-170: a failed call skips the rest of
\* the block and runs the inner finally.
AfterProbeCall(step, ok) == IF ok THEN ProbeSuccessor(step) ELSE "release"

FlashIdle ==
    /\ fl_pc = "idle"
    /\ fl_args = [buf |-> 0, board |-> None]
    /\ fl_device = None
    /\ fl_tmp_path = None
    /\ fl_files = {}
    /\ fl_opened = FALSE
    /\ fl_trace = <<>>
    /\ fl_exc = NoResult
    /\ fl_result = NoResult

FlashInit ==
    /\ fl_pc = "start"
    /\ fl_args \in [buf : 0..MaxBody, board : FlashBoards]
    /\ fl_device = None
    /\ fl_tmp_path = None
    /\ fl_files = {}
    /\ fl_opened = FALSE
    /\ fl_trace = <<>>
    /\ fl_exc = NoResult
    /\ fl_result = NoResult

\* flash_elf touches no state of the other operations.
FlashFrame == UNCHANGED <<fetch_vars, prov_vars, patch_vars, orch_vars>>

\* Lines 133-137: the device lookup; an unmapped board gives device = None and goes on.
FlashLookup ==
    /\ fl_pc = "start"
    /\ fl_device' = DictGet(StripLower(fl_args.board))
    /\ fl_tmp_path' = None
    /\ fl_pc' = "tmpfile"
    /\ UNCHANGED <<fl_args, fl_files, fl_opened, fl_trace, fl_exc, fl_result>>
    /\ FlashFrame

\* Lines 139-148: the buffer is copied to a temporary file. Creating the file can
\* fail (tmp_path stays None), and so can the copy into the created file.
FlashMakeTmp ==
    /\ fl_pc = "tmpfile"
    /\ \E outcome \in {"ok", "create_fails", "write_fails"} :
         /\ fl_trace' = Append(fl_trace, Call("NamedTemporaryFile", outcome))
         /\ fl_tmp_path' = IF outcome = "create_fails" THEN None ELSE TmpPath
         /\ fl_files' = IF outcome = "create_fails" THEN fl_files
                        ELSE fl_files \cup {[path |-> TmpPath,
                                              content |-> IF outcome = "ok" THEN fl_args.buf ELSE Truncated]}
         /\ fl_exc' = IF outcome = "ok" THEN NoResult ELSE Raised("OSError", None)
         /\ fl_pc' = IF outcome = "ok" THEN "probe" ELSE "unlink"
    /\ UNCHANGED <<fl_args, fl_device, fl_opened, fl_result>>
    /\ FlashFrame

\* Line 153: the probe object is constructed, outside the inner try.
FlashNewProbe ==
    /\ fl_pc = "probe"
    /\ \E ok \in BOOLEAN :
         /\ fl_trace' = Append(fl_trace, Call("JLink", ok))
         /\ fl_exc' = IF ok THEN NoResult ELSE Raised("JLinkException", None)
         /\ fl_pc' = IF ok THEN "open" ELSE "unlink"
    /\ UNCHANGED <<fl_args, fl_device, fl_tmp_path, fl_files, fl_opened, fl_result>>
    /\ FlashFrame

\* One call on the probe inside the inner try; a failure is wrapped as RuntimeError
\* with the probe's exception as its cause (lines 163-164).
ProbeCall(step, arg, canSucceed, openedAfter) ==
    /\ fl_pc = step
    /\ \E ok \in {TRUE, FALSE} :
         /\ ok => canSucceed
         /\ fl_trace' = Append(fl_trace, Call(step, arg))
         /\ fl_opened' \in openedAfter[ok]
         /\ fl_exc' = IF ok THEN NoResult ELSE Raised("RuntimeError", <<"JLinkException", step>>)
         /\ fl_pc' = AfterProbeCall(step, ok)
    /\ UNCHANGED <<fl_args, fl_device, fl_tmp_path, fl_files, fl_result>>
    /\ FlashFrame

Keep == [ok \in BOOLEAN |-> {fl_opened}]

\* Line 156. A failed open may leave the connection open or not.
FlashOpen == ProbeCall("open", None, TRUE, [ok \in BOOLEAN |-> IF ok THEN {TRUE} ELSE BOOLEAN])
\* Line 157.
FlashSetTif == ProbeCall("set_tif", "SWD", TRUE, Keep)
\* Line 158. Without a device name (device = None) the probe cannot connect.
FlashConnect == ProbeCall("connect", <<fl_device, speed_khz>>, fl_device # None, Keep)
\* Line 160.
FlashHalt == ProbeCall("halt", None, TRUE, Keep)
\* Line 161.
FlashFile == ProbeCall("flash_file", <<fl_tmp_path, FileContent(fl_files, fl_tmp_path)>>, TRUE, Keep)
\* Line 162.
FlashReset == ProbeCall("reset", None, TRUE, Keep)

\* Lines 165-170: the inner finally closes the connection when it is open.
FlashRelease ==
    /\ fl_pc = "release"
    /\ IF fl_opened
       THEN /\ fl_trace' = Append(fl_trace, Call("close", None))
            /\ fl_opened' = FALSE
       ELSE UNCHANGED <<fl_trace, fl_opened>>
    /\ fl_pc' = "unlink"
    /\ UNCHANGED <<fl_args, fl_device, fl_tmp_path, fl_files, fl_exc, fl_result>>
    /\ FlashFrame

\* Lines 171-176: the outer finally deletes the temporary file when one was created;
\* then the call returns, or the exception in flight propagates.
FlashUnlink ==
    /\ fl_pc = "unlink"
    /\ IF fl_tmp_path # None
       THEN /\ fl_trace' = Append(fl_trace, Call("unlink", fl_tmp_path))
            /\ fl_files' = {f \in fl_files : f.path # fl_tmp_path}
       ELSE UNCHANGED <<fl_trace, fl_files>>
    /\ fl_result' = IF fl_exc = NoResult THEN [kind |-> "returned", body |-> 0, cause |-> None] ELSE fl_exc
    /\ fl_pc' = "done"
    /\ UNCHANGED <<fl_args, fl_device, fl_tmp_path, fl_opened, fl_exc>>
    /\ FlashFrame

(***************************************************************************)
(* provision_key.py                                                        *)
(***************************************************************************)
\* SLEEP_TIME = 0.05 s, in milliseconds
SLEEP_TIME_MS == 50
\* RESET_DELAY = 3 s
RESET_DELAY == 3
\* the key size provision_key accepts
KEY_SIZE == 32

BAUDRATE == 115200

NEWLINE == 10

\* '=' of the base64 alphabet; the data symbols are their values 0..63
B64_PAD == 64

RECURSIVE Flatten(_)
Flatten(ss) == IF ss = <<>> THEN <<>> ELSE Head(ss) \o Flatten(Tail(ss))

\* str.encode('utf-8') of one code point (below 65536).
Utf8Char(cp) ==
    IF cp < 128 THEN <<cp>>
    ELSE IF cp < 2048 THEN <<192 + (cp \div 64), 128 + (cp % 64)>>
    ELSE <<224 + (cp \div 4096), 128 + ((cp \div 64) % 64), 128 + (cp % 64)>>

\* key_string.encode('utf-8'): the string is a sequence of code points.
Utf8Encode(cps) == Flatten([i \in 1..Len(cps) |-> Utf8Char(cps[i])])

\* The three bytes of four base64 symbols.
B64Quad(a, b, c, d) ==
    <<a * 4 + (b \div 16), (b % 16) * 16 + (c \div 4), (c % 4) * 64 + d>>

\* base64.b64decode of a string of data symbols followed by padding: the decoded
\* bytes, or a binascii.Error when the padding does not complete the last group.
B64Decode(syms) ==
    LET data == SelectSeq(syms, LAMBDA x : x # B64_PAD)
        pads == Len(syms) - Len(data)
        n == Len(data)
        full == n \div 4
        rest == n % 4
        quads == Flatten([q \in 1..full |->
                    B64Quad(data[4 * q - 3], data[4 * q - 2], data[4 * q - 1], data[4 * q])])
        last == IF rest = 2 THEN SubSeq(B64Quad(data[n - 1], data[n], 0, 0), 1, 1)
                ELSE IF rest = 3 THEN SubSeq(B64Quad(data[n - 2], data[n - 1], data[n], 0), 1, 2)
                ELSE <<>>
    IN  IF rest = 1 \/ (rest # 0 /\ pads < 4 - rest)
        THEN [error |-> TRUE, data |-> <<>>]
        ELSE [error |-> FALSE, data |-> quads \o last]

\* Lines 70-76: key_data from the arguments.
DecodeKey(key_string, base64_encoded) ==
    IF base64_encoded THEN B64Decode(key_string)
    ELSE [error |-> FALSE, data |-> Utf8Encode(key_string)]

\* Faulty variant of KeySizeOk: only keys that are too long are rejected.
KeySizeOkAtMost(key_data) == Len(key_data) <= KEY_SIZE

\* Line 78: the size check.
KeySizeOk(key_data) == Len(key_data) = KEY_SIZE

\* A natural number too large for one machine integer of the checker is kept as
\* [hi, lo], standing for hi * LIMB + lo with 0 <= lo < LIMB.
LIMB == Pow(10, 6)
Big(hi, lo) == [hi |-> hi, lo |-> lo]

\* The decimal digits of n < 10^width, as ASCII codes, zero-filled to `width` digits.
RECURSIVE Digits(_, _)
Digits(n, width) ==
    IF width = 0 THEN <<>> ELSE Append(Digits(n \div 10, width - 1), 48 + (n % 10))

\* str(n) of a natural number below LIMB, as ASCII codes.
RECURSIVE StrSmall(_)
StrSmall(n) == IF n < 10 THEN <<48 + n>> ELSE Append(StrSmall(n \div 10), 48 + (n % 10))

\* str(n), as ASCII codes.
Str(n) == IF n.hi = 0 THEN StrSmall(n.lo) ELSE StrSmall(n.hi) \o Digits(n.lo, 6)

\* Faulty variant of TimestampFrame: the terminating newline is missing.
TimestampFrameNoNewline(utc_ms) == Str(utc_ms)

\* Line 106: f"{utc_ms}\n".encode("ascii")
TimestampFrame(utc_ms) == Str(utc_ms) \o <<NEWLINE>>

\* Key strings given on the command line.
AsciiString(n, seed) == [i \in 1..n |-> 33 + ((seed + 7 * i) % 90)]
B64String(n, pads, seed) == [i \in 1..n |-> (seed * 17 + 5 * i) % 64] \o [i \in 1..pads |-> B64_PAD]

RawKeyStrings ==
    UNION {{ AsciiString(KEY_SIZE - 1, s), AsciiString(KEY_SIZE, s), AsciiString(KEY_SIZE + 1, s),
             \* one two-byte character (e-acute) among the characters
             AsciiString(KEY_SIZE - 2, s) \o <<233>>, AsciiString(KEY_SIZE - 1, s) \o <<233>> }
           : s \in 0..MaxSeed}

B64KeyStrings ==
    UNION {{ B64String(42, 2, s), B64String(43, 1, s), B64String(44, 0, s),
             \* padding missing, and one symbol too many
             B64String(43, 0, s), B64String(41, 0, s) }
           : s \in 0..MaxSeed}

\* int(time.time() * 1000)
ClockValues ==
    {Big(0, 0), Big(1700000, 0), Big(1762122, 42)}
    \cup UNION {{Big(0, Pow(10, k) - 1), Big(0, Pow(10, k))} : k \in 1..MaxPow}

IoEvent(op, arg, res) == [op |-> op, arg |-> arg, res |-> res]

\* Faulty variant of ResetDevice: the exit status of JLinkExe is not checked.
ResetDeviceIgnoresExit(outcome) ==
    CASE outcome = "ok" -> "returns"
      [] outcome = "nonzero" -> "returns"
      [] outcome = "oserror" -> "raises"

\* Lines 37-47: what reset_device does with the outcome of subprocess.run(check=True):
\* a nonzero exit (CalledProcessError) ends the process with sys.exit(1); any other
\* failure to run JLinkExe propagates.
ResetDevice(outcome) ==
    CASE outcome = "ok" -> "returns"
      [] outcome = "nonzero" -> "exits"
      [] outcome = "oserror" -> "raises"

ProvIdle ==
    /\ p_pc = "idle"
    /\ p_args = [key_string |-> <<>>, base64_encoded |-> FALSE, serial_port |-> None, device_type |-> None]
    /\ p_key_data = <<>>
    /\ p_ser_open = FALSE
    /\ p_i = 0
    /\ p_utc_ms = Big(0, 0)
    /\ p_frame = <<>>
    /\ p_io = <<>>
    /\ p_exc = None
    /\ p_result = None
    /\ p_exit = None

ProvInit ==
    /\ p_pc = "reset"
    /\ \E b64 \in BOOLEAN :
         \E ks \in IF b64 THEN B64KeyStrings ELSE RawKeyStrings :
           p_args = [key_string |-> ks, base64_encoded |-> b64,
                     serial_port |-> "/dev/ttyACM0", device_type |-> "nRF52832_xxAA"]
    /\ p_key_data = <<>>
    /\ p_ser_open = FALSE
    /\ p_i = 0
    /\ p_utc_ms = Big(0, 0)
    /\ p_frame = <<>>
    /\ p_io = <<>>
    /\ p_exc = None
    /\ p_result = None
    /\ p_exit = None

\* provision_key touches no state of the other operations.
ProvFrame == UNCHANGED <<fetch_vars, flash_vars, patch_vars, orch_vars>>

\* sys.exit(1), or an exception that main() turns into sys.exit(1) (lines 163-168).
ProvFail(kind) ==
    /\ p_pc' = "done"
    /\ p_result' = kind
    /\ p_exit' = 1

\* Lines 62-63 and 31-47: JLinkExe is run with the reset script.
ProvReset ==
    /\ p_pc = "reset"
    /\ \E outcome \in {"ok", "nonzero", "oserror"} :
         /\ p_io' = Append(p_io, IoEvent("JLinkExe",
                       <<"connect", p_args.device_type, "S", 4000, "Reset", "exit">>, outcome))
         /\ CASE ResetDevice(outcome) = "returns" ->
                    /\ p_pc' = "settle"
                    /\ UNCHANGED <<p_result, p_exit>>
              [] ResetDevice(outcome) = "exits" -> ProvFail("ResetFailed")
              [] ResetDevice(outcome) = "raises" -> ProvFail("Unexpected")
    /\ UNCHANGED <<p_args, p_key_data, p_ser_open, p_i, p_utc_ms, p_frame, p_exc>>
    /\ ProvFrame

\* Lines 66-67: the settle delay.
ProvSettle ==
    /\ p_pc = "settle"
    /\ p_io' = Append(p_io, IoEvent("sleep", RESET_DELAY * 1000, "ok"))
    /\ p_pc' = "key"
    /\ UNCHANGED <<p_args, p_key_data, p_ser_open, p_i, p_utc_ms, p_frame, p_exc, p_result, p_exit>>
    /\ ProvFrame

\* Lines 70-85: the key is decoded and its size checked.
ProvDecodeKey ==
    /\ p_pc = "key"
    /\ LET dec == DecodeKey(p_args.key_string, p_args.base64_encoded)
       IN  IF dec.error
           THEN /\ ProvFail("DecodeError")
                /\ UNCHANGED p_key_data
           ELSE /\ p_key_data' = dec.data
                /\ IF KeySizeOk(dec.data)
                   THEN /\ p_pc' = "open"
                        /\ UNCHANGED <<p_result, p_exit>>
                   ELSE ProvFail("InvalidKeySize")
    /\ UNCHANGED <<p_args, p_ser_open, p_i, p_utc_ms, p_frame, p_io, p_exc>>
    /\ ProvFrame

\* Lines 88-90, 92-94: serial.Serial(port, baudrate=115200, timeout=1) opens the port.
ProvOpen ==
    /\ p_pc = "open"
    /\ \E ok \in BOOLEAN :
         /\ p_io' = Append(p_io, IoEvent("Serial", <<p_args.serial_port, BAUDRATE>>,
                                         IF ok THEN "ok" ELSE "SerialException"))
         /\ p_ser_open' = ok
         /\ IF ok
            THEN /\ p_pc' = "clear"
                 /\ UNCHANGED <<p_result, p_exit>>
            ELSE ProvFail("SerialError")
    /\ UNCHANGED <<p_args, p_key_data, p_i, p_utc_ms, p_frame, p_exc>>
    /\ ProvFrame

\* Lines 91-94: the input buffer is cleared; a SerialException here ends the process
\* with sys.exit(1), before the try/finally that closes the port is entered.
ProvClear ==
    /\ p_pc = "clear"
    /\ \E ok \in BOOLEAN :
         /\ p_io' = Append(p_io, IoEvent("reset_input_buffer", None,
                                         IF ok THEN "ok" ELSE "SerialException"))
         /\ IF ok
            THEN /\ p_pc' = "write_key"
                 /\ UNCHANGED <<p_result, p_exit>>
            ELSE ProvFail("SerialError")
    /\ p_i' = 0
    /\ UNCHANGED <<p_args, p_key_data, p_ser_open, p_utc_ms, p_frame, p_exc>>
    /\ ProvFrame

\* One iteration of a write loop with the write wrapped in a handler that goes on
\* with the next byte.
WriteByteGoesOn(data) ==
    \E ok \in BOOLEAN :
        /\ p_io' = IF ok
                   THEN p_io \o << IoEvent("write", <<data[p_i + 1]>>, "ok"),
                                   IoEvent("sleep", SLEEP_TIME_MS, "ok") >>
                   ELSE Append(p_io, IoEvent("write", <<data[p_i + 1]>>, "SerialException"))
        /\ p_i' = p_i + 1
        /\ UNCHANGED <<p_pc, p_exc>>

\* One iteration of a write loop over `data` (lines 99-101, 108-110): one byte is
\* written and the inter-byte delay slept; a failed write leaves the loop for the
\* finally block.
WriteByte(data) ==
    \E ok \in BOOLEAN :
        IF ok
        THEN /\ p_io' = p_io \o << IoEvent("write", <<data[p_i + 1]>>, "ok"),
                                   IoEvent("sleep", SLEEP_TIME_MS, "ok") >>
             /\ p_i' = p_i + 1
             /\ UNCHANGED <<p_pc, p_exc>>
        ELSE /\ p_io' = Append(p_io, IoEvent("write", <<data[p_i + 1]>>, "SerialException"))
             /\ p_exc' = "SerialException"
             /\ p_pc' = "close"
             /\ UNCHANGED p_i

\* Lines 99-101.
ProvWriteKey ==
    /\ p_pc = "write_key"
    /\ p_i < Len(p_key_data)
    /\ WriteByte(p_key_data)
    /\ UNCHANGED <<p_args, p_key_data, p_ser_open, p_utc_ms, p_frame, p_result, p_exit>>
    /\ ProvFrame

\* Lines 105-106: the key loop is over; the clock is read and the frame built.
ProvTimestamp ==
    /\ p_pc = "write_key"
    /\ p_i = Len(p_key_data)
    /\ \E now \in ClockValues :
         /\ p_utc_ms' = now
         /\ p_frame' = TimestampFrame(now)
    /\ p_i' = 0
    /\ p_pc' = "write_frame"
    /\ UNCHANGED <<p_args, p_key_data, p_ser_open, p_io, p_exc, p_result, p_exit>>
    /\ ProvFrame

\* Lines 108-112.
ProvWriteFrame ==
    /\ p_pc = "write_frame"
    /\ IF p_i < Len(p_frame)
       THEN WriteByte(p_frame)
       ELSE /\ p_pc' = "close"
            /\ UNCHANGED <<p_io, p_i, p_exc>>
    /\ UNCHANGED <<p_args, p_key_data, p_ser_open, p_utc_ms, p_frame, p_result, p_exit>>
    /\ ProvFrame

\* Lines 114-115 and 158-168: the finally block closes the port; then the run ends
\* with status 0, or main() reports the exception in flight and exits with 1.
ProvClose ==
    /\ p_pc = "close"
    /\ p_io' = Append(p_io, IoEvent("close", None, "ok"))
    /\ p_ser_open' = FALSE
    /\ p_pc' = "done"
    /\ p_result' = IF p_exc = None THEN "success" ELSE "Unexpected"
    /\ p_exit' = IF p_exc = None THEN 0 ELSE 1
    /\ UNCHANGED <<p_args, p_key_data, p_i, p_utc_ms, p_frame, p_exc>>
    /\ ProvFrame

(***************************************************************************)
(* The ELF image handled by the patcher (elfmgr.py, embed-key.py).         *)
(*                                                                         *)
(* The image is a sequence of bytes.  The patcher reads it through         *)
(* pyelftools and uses: the data encoding of the file header, the section  *)
(* header table (name, type, address, file offset, size of each section)   *)
(* and the entries of the symbol tables (name, value, size, section        *)
(* index).  The model keeps exactly these fields, one byte each, in the    *)
(* same places an ELF file keeps them: a file header, the section          *)
(* contents, and a section header table, so that a write into the buffer   *)
(* changes what the next parse of the buffer sees.  Names are offsets into *)
(* a fixed string table.                                                   *)
(***************************************************************************)
ELFDATA2LSB == 1
ELFDATA2MSB == 2

EHDR_SIZE == 3   \* file header: EI_DATA, e_shoff, e_shnum
SHDR_SIZE == 5   \* section header: sh_name, sh_type, sh_addr, sh_offset, sh_size
SYM_SIZE == 4    \* symbol entry: st_name, st_value, st_size, st_shndx

SHT_PROGBITS == 1
SHT_SYMTAB == 2
SHT_NOBITS == 8
SHT_DYNSYM == 11

SHN_UNDEF == 0
SHN_ABS == 241
SHN_COMMON == 242

StrTab == <<"", "master_key", "utc_time", "other_var", ".text", "datas", "bss", ".bss",
            "noinit", ".symtab", ".dynsym">>

NameId(s) == (CHOOSE i \in DOMAIN StrTab : StrTab[i] = s) - 1

NameAt(id) == IF id + 1 \in DOMAIN StrTab THEN StrTab[id + 1] ELSE "?"

\* buf.seek(off); buf.read(n) on io.BytesIO
BufRead(buf, off, n) ==
    IF off >= Len(buf) \/ n <= 0 THEN <<>>
    ELSE SubSeq(buf, off + 1, IF off + n <= Len(buf) THEN off + n ELSE Len(buf))

\* buf.write(data) without the seek to off before it: the bytes go to the end
BufWriteNoSeek(buf, off, data) == buf \o data

\* buf.seek(off); buf.write(data) on io.BytesIO, for off >= 0: nothing happens for
\* empty data, a position past the end is filled with zero bytes, and a write that
\* passes the end extends the buffer
BufWrite(buf, off, data) ==
    IF data = <<>> THEN buf
    ELSE LET padded == IF off > Len(buf)
                       THEN buf \o [i \in 1..(off - Len(buf)) |-> 0]
                       ELSE buf
             rest == off + Len(data)
         IN  (IF off = 0 THEN <<>> ELSE SubSeq(padded, 1, off))
             \o data
             \o (IF rest >= Len(padded) THEN <<>> ELSE SubSeq(padded, rest + 1, Len(padded)))

Readable(buf, off, n) == off >= 0 /\ off + n <= Len(buf)

\* ELFFile(buf): the constructor reads the file header and rejects an unknown encoding
ValidElf(buf) == Len(buf) >= EHDR_SIZE /\ buf[1] \in {ELFDATA2LSB, ELFDATA2MSB}

Header(buf) == [ei_data |-> buf[1], e_shoff |-> buf[2], e_shnum |-> buf[3]]

\* elf.num_sections()
NumSections(buf) == Header(buf).e_shnum

SectionOffset(buf, n) == Header(buf).e_shoff + n * SHDR_SIZE

\* whether elf.get_section(n) gives a section: n is an index of the section header
\* table and the header lies inside the buffer
HasSection(buf, n) ==
    n >= 0 /\ n < NumSections(buf) /\ Readable(buf, SectionOffset(buf, n), SHDR_SIZE)

\* elf.get_section(n)
GetSection(buf, n) ==
    LET h == BufRead(buf, SectionOffset(buf, n), SHDR_SIZE)
    IN  [name |-> NameAt(h[1]), sh_type |-> h[2], sh_addr |-> h[3],
         sh_offset |-> h[4], sh_size |-> h[5], index |-> n]

\* isinstance(sec, SymbolTableSection)
IsSymbolTableSection(sec) == sec.sh_type \in {SHT_SYMTAB, SHT_DYNSYM}

\* sec.num_symbols()
NumSymbols(sec) == sec.sh_size \div SYM_SIZE

\* whether entry k of the symbol table sec lies inside the buffer
HasSymbol(buf, sec, k) == Readable(buf, sec.sh_offset + k * SYM_SIZE, SYM_SIZE)

\* sec.get_symbol(k)
GetSymbol(buf, sec, k) ==
    LET e == BufRead(buf, sec.sh_offset + k * SYM_SIZE, SYM_SIZE)
    IN  [name |-> NameAt(e[1]), st_value |-> e[2], st_size |-> e[3], st_shndx |-> e[4],
         table |-> sec.index, entry |-> k]

\* the three forms pyelftools gives st_shndx: the string SHN_UNDEF, another string
\* (a special index), or an integer section index
ShndxKind(shndx) ==
    IF shndx = SHN_UNDEF THEN "SHN_UNDEF"
    ELSE IF shndx \in {SHN_ABS, SHN_COMMON} THEN "str"
    ELSE "int"

NoSymbol == [name |-> None]

NoSectionRec == [name |-> None]

Resolution(kind, sym, sec) == [kind |-> kind, sym |-> sym, sec |-> sec]

\* the test of _find_symbol that makes it pass over a match: the owning section is
\* the one named bss
SkipsSection(target_sec) == target_sec.name = "bss"

\* _find_symbol, the inner loop over the entries k, k+1, ... of one symbol table;
\* kind "exhausted" is the end of the table without a return or a raise
RECURSIVE ScanSymbols(_, _, _, _)
ScanSymbols(buf, name, sec, k) ==
    IF k >= NumSymbols(sec) THEN Resolution("exhausted", NoSymbol, NoSectionRec)
    ELSE IF ~HasSymbol(buf, sec, k) THEN Resolution("ELFError", NoSymbol, NoSectionRec)
    ELSE LET sym == GetSymbol(buf, sec, k) IN
         IF sym.name # name THEN ScanSymbols(buf, name, sec, k + 1)
         ELSE IF ShndxKind(sym.st_shndx) = "SHN_UNDEF"
              THEN Resolution("UndefinedSymbol", sym, NoSectionRec)
         ELSE IF ShndxKind(sym.st_shndx) = "str"
              THEN Resolution("UnpatchableSymbol", sym, NoSectionRec)
         ELSE IF ~HasSection(buf, sym.st_shndx)
              THEN Resolution("NoSection", sym, NoSectionRec)
         ELSE LET target_sec == GetSection(buf, sym.st_shndx) IN
              IF SkipsSection(target_sec) THEN ScanSymbols(buf, name, sec, k + 1)
              ELSE Resolution("found", sym, target_sec)

\* _find_symbol, the outer loop over the sections n, n+1, ... of the image
RECURSIVE ScanSections(_, _, _)
ScanSections(buf, name, n) ==
    IF n >= NumSections(buf) THEN Resolution("None", NoSymbol, NoSectionRec)
    ELSE IF ~HasSection(buf, n) THEN Resolution("ELFError", NoSymbol, NoSectionRec)
    ELSE LET sec == GetSection(buf, n) IN
         IF ~IsSymbolTableSection(sec) THEN ScanSections(buf, name, n + 1)
         ELSE LET r == ScanSymbols(buf, name, sec, 0) IN
              IF r.kind = "exhausted" THEN ScanSections(buf, name, n + 1) ELSE r

\* _find_symbol(elf, name)
find_symbol(buf, name) == ScanSections(buf, name, 0)

\* _compute_file_offset(sym, sec), with the address subtraction left out
compute_file_offset_no_addr(sym, sec) == sec.sh_offset + sym.st_value

\* _compute_file_offset(sym, sec)
compute_file_offset(sym, sec) == sec.sh_offset + (sym.st_value - sec.sh_addr)

\* the size test of _patch_symbol, accepting every payload that fits the symbol
SizeAcceptedIfFits(sym_size, n) == sym_size = 0 \/ n <= sym_size

\* the size test of _patch_symbol: sym_size in (0, len(data))
SizeAccepted(sym_size, n) == sym_size \in {0, n}

PatchOutcome(status, buf) == [status |-> status, buf |-> buf]

\* _patch_symbol(buf, data, symbol_name): the status is "ok" for a normal return and
\* the kind of error raised otherwise; buf is the buffer afterwards
patch_symbol(buf, data, symbol_name) ==
    IF ~ValidElf(buf) THEN PatchOutcome("ELFError", buf)
    ELSE LET r == find_symbol(buf, symbol_name) IN
         IF r.kind = "None" THEN PatchOutcome("NotFound", buf)
         ELSE IF r.kind # "found" THEN PatchOutcome(r.kind, buf)
         ELSE LET file_off == compute_file_offset(r.sym, r.sec)
                  sym_size == r.sym.st_size
              IN  IF ~SizeAccepted(sym_size, Len(data)) THEN PatchOutcome("SizeMismatch", buf)
                  ELSE IF file_off < 0 THEN PatchOutcome("SeekError", buf)
                  ELSE PatchOutcome("ok", BufWrite(buf, file_off, data))

\* _get_endianness_from_elf(buf)
get_endianness_from_elf(buf) ==
    IF ~ValidElf(buf) THEN "ELFError"
    ELSE IF Header(buf).ei_data = ELFDATA2LSB THEN "little" ELSE "big"

\* int.to_bytes(8, ...) of a clock value.  A 64-bit value is kept as its four 16-bit
\* limbs, most significant first.
U64(a, b, c, d) == <<a, b, c, d>>

Reverse(s) == [i \in 1..Len(s) |-> s[Len(s) + 1 - i]]

\* utc_ms.to_bytes(8, "little", signed=False) whatever the byte order asked for
to_bytes_little(v, endian) == Reverse(Flatten([i \in 1..Len(v) |-> <<v[i] \div 256, v[i] % 256>>]))

\* utc_ms.to_bytes(8, endian, signed=False)
to_bytes(v, endian) ==
    LET big == Flatten([i \in 1..Len(v) |-> <<v[i] \div 256, v[i] % 256>>])
    IN  IF endian = "big" THEN big ELSE Reverse(big)

\* int(time.time() * 1000): 0, 1, 1700000000000 and 2^64 - 1
PatchClockValues ==
    {U64(0, 0, 0, 0), U64(0, 0, 0, 1), U64(0, 395, 53221, 26624),
     U64(65535, 65535, 65535, 65535)}

\* The images given to the patcher: addresses and sizes of the sections
Layout ==
    [text_addr |-> 16, text_size |-> 4, data_addr |-> 64, data_size |-> 16,
     bss_addr |-> 96, bss_size |-> 12]

\* A symbol of an image: its name, its home ("datas", "bss", "UNDEF", "ABS" or
\* "COMMON"), its offset from the start of the home section, its declared size
Sym(name, home, at, size) == [name |-> name, home |-> home, at |-> at, size |-> size]

\* The image of a linker run: sections (null), .dynsym, .text, datas, the
\* section without file bytes under the name bss_name, .symtab, laid out as
\* header, .dynsym, .text, datas, .symtab, section header table.  The NOBITS section
\* occupies no file bytes, its sh_offset is where the next section begins.
MkImage(ei_data, bss_name, dyn, sym) ==
    LET L == Layout
        dynOff == EHDR_SIZE
        dynLen == Len(dyn) * SYM_SIZE
        textOff == dynOff + dynLen
        dataOff == textOff + L.text_size
        symOff == dataOff + L.data_size
        symLen == Len(sym) * SYM_SIZE
        shoff == symOff + symLen
        Value(d) == IF d.home = "datas" THEN L.data_addr + d.at
                    ELSE IF d.home = "bss" THEN L.bss_addr + d.at
                    ELSE d.at
        Shndx(d) == CASE d.home = "datas" -> 3
                      [] d.home = "bss" -> 4
                      [] d.home = "UNDEF" -> SHN_UNDEF
                      [] d.home = "ABS" -> SHN_ABS
                      [] d.home = "COMMON" -> SHN_COMMON
        Entry(d) == <<NameId(d.name), Value(d), d.size, Shndx(d)>>
        Entries(ds) == Flatten([i \in 1..Len(ds) |-> Entry(ds[i])])
    IN  <<ei_data, shoff, 6>>
        \o Entries(dyn)
        \o [i \in 1..L.text_size |-> 32 + i]
        \o [i \in 1..L.data_size |-> 48 + i]
        \o Entries(sym)
        \o <<0, 0, 0, 0, 0>>
        \o <<NameId(".dynsym"), SHT_DYNSYM, 0, dynOff, dynLen>>
        \o <<NameId(".text"), SHT_PROGBITS, L.text_addr, textOff, L.text_size>>
        \o <<NameId("datas"), SHT_PROGBITS, L.data_addr, dataOff, L.data_size>>
        \o <<NameId(bss_name), SHT_NOBITS, L.bss_addr, symOff, L.bss_size>>
        \o <<NameId(".symtab"), SHT_SYMTAB, 0, symOff, symLen>>

\* The symbol tables of the images: [dyn, sym]
SymbolTables ==
    { \* both symbols in the data section
      [dyn |-> <<>>,
       sym |-> <<Sym("other_var", "datas", 0, 2), Sym("master_key", "datas", 2, 4),
                 Sym("utc_time", "datas", 6, 8)>>],
      \* an entry in the zero-initialized section before the one in the data section
      [dyn |-> <<>>,
       sym |-> <<Sym("master_key", "bss", 0, 4), Sym("utc_time", "bss", 4, 8),
                 Sym("master_key", "datas", 2, 4), Sym("utc_time", "datas", 6, 8)>>],
      \* entries in the zero-initialized section only
      [dyn |-> <<>>,
       sym |-> <<Sym("master_key", "bss", 0, 4), Sym("utc_time", "bss", 4, 8)>>],
      \* an undefined entry in .dynsym before the definition in .symtab
      [dyn |-> <<Sym("master_key", "UNDEF", 0, 0), Sym("utc_time", "UNDEF", 0, 0)>>,
       sym |-> <<Sym("master_key", "datas", 2, 4), Sym("utc_time", "datas", 6, 8)>>],
      \* an absolute and a common entry before the definitions
      [dyn |-> <<Sym("master_key", "ABS", 5, 4), Sym("utc_time", "COMMON", 4, 8)>>,
       sym |-> <<Sym("master_key", "datas", 2, 4), Sym("utc_time", "datas", 6, 8)>>],
      \* a definition in .dynsym before an undefined entry in .symtab
      [dyn |-> <<Sym("master_key", "datas", 2, 4)>>,
       sym |-> <<Sym("master_key", "UNDEF", 0, 0), Sym("utc_time", "datas", 6, 8)>>],
      \* an entry in the zero-initialized section, then an undefined or absolute one
      [dyn |-> <<>>,
       sym |-> <<Sym("master_key", "bss", 0, 4), Sym("master_key", "UNDEF", 0, 0),
                 Sym("utc_time", "bss", 4, 8), Sym("utc_time", "ABS", 6, 8)>>],
      \* symbols of declared size 0
      [dyn |-> <<>>,
       sym |-> <<Sym("other_var", "datas", 0, 2), Sym("master_key", "datas", 2, 0),
                 Sym("utc_time", "datas", 6, 0)>>],
      \* a timestamp symbol of four bytes
      [dyn |-> <<>>,
       sym |-> <<Sym("master_key", "datas", 2, 4), Sym("utc_time", "datas", 6, 4)>>],
      \* the key symbol without the timestamp symbol
      [dyn |-> <<>>,
       sym |-> <<Sym("other_var", "datas", 0, 2), Sym("master_key", "datas", 2, 4)>>],
      \* the key symbol and an undefined timestamp symbol
      [dyn |-> <<>>,
       sym |-> <<Sym("master_key", "datas", 2, 4), Sym("utc_time", "UNDEF", 0, 0)>>],
      \* a key symbol of declared size 0 without the timestamp symbol
      [dyn |-> <<>>,
       sym |-> <<Sym("other_var", "datas", 0, 2), Sym("master_key", "datas", 2, 0)>>],
      \* neither symbol
      [dyn |-> <<>>, sym |-> <<Sym("other_var", "datas", 0, 2)>>] }

\* the names of the section without file bytes (SHT_NOBITS): bss and noinit in a
\* Zephyr link, .bss in the default GNU link
BssNames == {"bss", ".bss", "noinit"}

Images ==
    { MkImage(e, b, t.dyn, t.sym) : e \in {ELFDATA2LSB, ELFDATA2MSB}, b \in BssNames,
                                    t \in SymbolTables }

\* payloads of _patch_symbol
Payload(n, seed) == [i \in 1..n |-> (200 + 7 * i + 64 * seed) % 256]

PayloadLengths == {0, 3, 4, 8, 20, 90}

Payloads == { Payload(n, s) : n \in PayloadLengths, s \in 0..MaxSeed }

SymbolNames == {"master_key", "utc_time", "missing_symbol"}

\* device.key: base64 of 4 bytes, of 3 bytes, and a string that is not base64
DeviceKeys ==
    UNION {{ B64String(6, 2, s), B64String(4, 0, s), B64String(5, 0, s) } : s \in 0..MaxSeed}

PatchCall(op, data, symbol_name, key) ==
    [op |-> op, data |-> data, symbol_name |-> symbol_name, key |-> key]

\* one entry of pt_log: a call of _patch_symbol, the buffer it was given, its outcome
PatchEvent(symbol_name, data, before, status) ==
    [symbol_name |-> symbol_name, data |-> data, before |-> before, status |-> status]

NoClock == <<>>

PatchIdle ==
    /\ pt_pc = "idle"
    /\ pt_call = PatchCall("none", <<>>, "", <<>>)
    /\ pt_orig = <<>>
    /\ pt_buf = <<>>
    /\ pt_utc_ms = NoClock
    /\ pt_log = <<>>
    /\ pt_result = "none"

PatchInit ==
    /\ \/ /\ pt_pc = "patch_symbol"
          /\ pt_call \in {PatchCall("_patch_symbol", d, n, <<>>) : d \in Payloads, n \in SymbolNames}
       \/ /\ pt_pc = "patch_elf"
          /\ pt_call \in {PatchCall(op, <<>>, "", k) : op \in {"patch_elf", "embed-key"},
                                                       k \in DeviceKeys}
    /\ pt_orig \in Images
    /\ pt_buf = pt_orig
    /\ pt_utc_ms = NoClock
    /\ pt_log = <<>>
    /\ pt_result = "none"

PatchFrame == UNCHANGED <<fetch_vars, flash_vars, prov_vars, orch_vars>>

\* a call of _patch_symbol on its own
PatchSymbol ==
    /\ pt_pc = "patch_symbol"
    /\ LET out == patch_symbol(pt_buf, pt_call.data, pt_call.symbol_name)
       IN  /\ pt_buf' = out.buf
           /\ pt_log' = Append(pt_log, PatchEvent(pt_call.symbol_name, pt_call.data, pt_buf,
                                                  out.status))
           /\ pt_result' = out.status
    /\ pt_pc' = "done"
    /\ UNCHANGED <<pt_call, pt_orig, pt_utc_ms>>
    /\ PatchFrame

\* patch_elf with the timestamp patched whatever became of the key patch
AfterKeyPatchGoesOn(status) == "utc_time"

\* patch_elf, lines 89-91, and embed-key main, lines 110-112: the timestamp is
\* patched only after the key patch returned normally
AfterKeyPatch(status) == IF status = "ok" THEN "utc_time" ELSE "done"

\* patch_elf, line 89, and embed-key main, lines 101-112: the key is decoded and
\* written to master_key
PatchElfKey ==
    /\ pt_pc = "patch_elf"
    /\ LET key == B64Decode(pt_call.key)
           out == patch_symbol(pt_buf, key.data, "master_key")
       IN  IF key.error
           THEN /\ pt_result' = "binascii.Error"
                /\ pt_pc' = "done"
                /\ UNCHANGED <<pt_buf, pt_log>>
           ELSE /\ pt_buf' = out.buf
                /\ pt_log' = Append(pt_log, PatchEvent("master_key", key.data, pt_buf, out.status))
                /\ pt_result' = IF out.status = "ok" THEN "none" ELSE out.status
                /\ pt_pc' = AfterKeyPatch(out.status)
    /\ UNCHANGED <<pt_call, pt_orig, pt_utc_ms>>
    /\ PatchFrame

\* patch_elf working on a copy that replaces the caller's buffer only when the
\* timestamp patch returned normally
HeldBufferAllOrNothing(orig, out) == IF out.status = "ok" THEN out.buf ELSE orig

\* patch_elf, lines 88-93: both patches are made on the caller's buffer with no
\* copy, so the caller holds what the last _patch_symbol left, raised or not
HeldBuffer(orig, out) == out.buf

\* patch_elf, lines 91-93, and embed-key main, lines 115-119: the byte order is read
\* from the image, the clock is read, and its eight bytes are written to utc_time
PatchElfTime ==
    /\ pt_pc = "utc_time"
    /\ LET endian == get_endianness_from_elf(pt_buf) IN
       IF endian = "ELFError"
       THEN /\ pt_result' = "ELFError"
            /\ UNCHANGED <<pt_buf, pt_log, pt_utc_ms>>
       ELSE \E utc_ms \in PatchClockValues :
              LET data == to_bytes(utc_ms, endian)
                  out == patch_symbol(pt_buf, data, "utc_time")
              IN  /\ pt_utc_ms' = utc_ms
                  /\ pt_buf' = HeldBuffer(pt_orig, out)
                  /\ pt_log' = Append(pt_log, PatchEvent("utc_time", data, pt_buf, out.status))
                  /\ pt_result' = out.status
    /\ pt_pc' = "done"
    /\ UNCHANGED <<pt_call, pt_orig>>
    /\ PatchFrame

(***************************************************************************)
(* The flash command of the CLI (python/src/hubbledemo/cli.py).            *)
(* Each step is a call that returns or raises; the image is carried from   *)
(* fetch_elf through patch_elf to flash_elf.                               *)
(***************************************************************************)
\* patch_elf(buf, device) as one call, for the key device.key and the clock value
\* utc_ms: the outcome and the buffer afterwards
patch_elf(buf, device_key, utc_ms) ==
    LET key == B64Decode(device_key) IN
    IF key.error THEN PatchOutcome("binascii.Error", buf)
    ELSE LET k == patch_symbol(buf, key.data, "master_key") IN
         IF k.status # "ok" THEN k
         ELSE LET endian == get_endianness_from_elf(k.buf) IN
              IF endian = "ELFError" THEN PatchOutcome("ELFError", k.buf)
              ELSE patch_symbol(k.buf, to_bytes(utc_ms, endian), "utc_time")

\* the steps of flash() in program order
OrchSteps == <<"setup", "register_device", "fetch_elf", "patch_elf", "flash_elf">>

OrchNextStep(step) ==
    CASE step = "setup" -> "register_device"
      [] step = "register_device" -> "fetch_elf"
      [] step = "fetch_elf" -> "patch_elf"
      [] step = "patch_elf" -> "flash_elf"
      [] step = "flash_elf" -> "return"

\* flash() with the call of patch_elf wrapped in a handler that goes on
OrchAfterIgnoresPatch(step, ok) ==
    IF ok \/ step = "patch_elf" THEN OrchNextStep(step) ELSE "raise"

\* flash() has no handler: a step that raises ends the command, the exception goes
\* to main
OrchAfter(step, ok) == IF ok THEN OrchNextStep(step) ELSE "raise"

\* main(), lines 89-97: 0 after a normal return of the command, 2 for an Exception
ExitCode(pc) == IF pc = "return" THEN 0 ELSE 2

\* one entry of o_log: the step called, the buffer it was given, how it ended
OrchEvent(step, buf, outcome) == [step |-> step, buf |-> buf, outcome |-> outcome]

\* what the calls of the command can raise
OrchFailures(step) ==
    CASE step = "setup" -> {"ClickException"}
      [] step = "register_device" -> {"APIError"}
      [] step = "fetch_elf" -> {"ValueError", "FileNotFoundError", "HTTPError", "NameError",
                                "ConnectionError"}
      [] step = "flash_elf" -> {"RuntimeError", "OSError", "JLinkException"}

\* the images the store serves to the command
OrchImages ==
    { MkImage(e, b, t.dyn, t.sym) : e \in {ELFDATA2LSB, ELFDATA2MSB}, b \in {"bss"},
                                    t \in SymbolTables }

OrchIdle ==
    /\ o_pc = "idle"
    /\ o_device_key = <<>>
    /\ o_buf = <<>>
    /\ o_log = <<>>
    /\ o_exit = None

OrchInit ==
    /\ o_pc = "setup"
    /\ o_device_key = <<>>
    /\ o_buf = <<>>
    /\ o_log = <<>>
    /\ o_exit = None

OrchFrame == UNCHANGED <<fetch_vars, flash_vars, prov_vars, patch_vars>>

\* the end of a step that touches neither the device record nor the buffer
OrchStepEnds(step, outcome) ==
    /\ o_log' = Append(o_log, OrchEvent(step, o_buf, outcome))
    /\ o_pc' = OrchAfter(step, outcome = "ok")

\* Lines 59-60: the credentials and the Organization object
OrchSetup ==
    /\ o_pc = "setup"
    /\ \E outcome \in {"ok"} \cup OrchFailures("setup") : OrchStepEnds("setup", outcome)
    /\ UNCHANGED <<o_device_key, o_buf, o_exit>>
    /\ OrchFrame

\* Line 63: device = org.register_device()
OrchRegister ==
    /\ o_pc = "register_device"
    /\ \/ \E key \in DeviceKeys :
            /\ o_device_key' = key
            /\ OrchStepEnds("register_device", "ok")
       \/ \E exc \in OrchFailures("register_device") :
            /\ o_device_key' = o_device_key
            /\ OrchStepEnds("register_device", exc)
    /\ UNCHANGED <<o_buf, o_exit>>
    /\ OrchFrame

\* Line 69: buf = fetch_elf(board=board)
OrchFetch ==
    /\ o_pc = "fetch_elf"
    /\ \/ \E image \in OrchImages :
            /\ o_buf' = image
            /\ OrchStepEnds("fetch_elf", "ok")
       \/ \E exc \in OrchFailures("fetch_elf") :
            /\ o_buf' = o_buf
            /\ OrchStepEnds("fetch_elf", exc)
    /\ UNCHANGED <<o_device_key, o_exit>>
    /\ OrchFrame

\* Line 73: patch_elf(buf, device), which works on buf in place
OrchPatch ==
    /\ o_pc = "patch_elf"
    /\ \E utc_ms \in PatchClockValues :
         \E out \in {patch_elf(o_buf, o_device_key, utc_ms)} :
             /\ o_buf' = out.buf
             /\ OrchStepEnds("patch_elf", out.status)
    /\ UNCHANGED <<o_device_key, o_exit>>
    /\ OrchFrame

\* Line 77: flash_elf(board=board, buf=buf)
OrchFlash ==
    /\ o_pc = "flash_elf"
    /\ \E outcome \in {"ok"} \cup OrchFailures("flash_elf") : OrchStepEnds("flash_elf", outcome)
    /\ UNCHANGED <<o_device_key, o_buf, o_exit>>
    /\ OrchFrame

\* main(), lines 89-97: the exit code
OrchExit ==
    /\ o_pc \in {"return", "raise"}
    /\ o_exit' = ExitCode(o_pc)
    /\ o_pc' = "done"
    /\ UNCHANGED <<o_device_key, o_buf, o_log>>
    /\ OrchFrame

(***************************************************************************)
(* One call of one operation per behaviour.                                *)
(***************************************************************************)
Init ==
    \/ FetchInit /\ FlashIdle /\ ProvIdle /\ PatchIdle /\ OrchIdle
    \/ FetchIdle /\ FlashInit /\ ProvIdle /\ PatchIdle /\ OrchIdle
    \/ FetchIdle /\ FlashIdle /\ ProvInit /\ PatchIdle /\ OrchIdle
    \/ FetchIdle /\ FlashIdle /\ ProvIdle /\ PatchInit /\ OrchIdle
    \/ FetchIdle /\ FlashIdle /\ ProvIdle /\ PatchIdle /\ OrchInit

Next ==
    \/ FetchRejectBoard \/ FetchLocalFile \/ FetchBuildUrl \/ FetchAttempt
    \/ FlashLookup \/ FlashMakeTmp \/ FlashNewProbe
    \/ FlashOpen \/ FlashSetTif \/ FlashConnect \/ FlashHalt \/ FlashFile \/ FlashReset
    \/ FlashRelease \/ FlashUnlink
    \/ ProvReset \/ ProvSettle \/ ProvDecodeKey \/ ProvOpen \/ ProvClear
    \/ ProvWriteKey \/ ProvTimestamp \/ ProvWriteFrame \/ ProvClose
    \/ PatchSymbol \/ PatchElfKey \/ PatchElfTime
    \/ OrchSetup \/ OrchRegister \/ OrchFetch \/ OrchPatch \/ OrchFlash \/ OrchExit

Spec == Init /\ [][Next]_vars

\* fetch_elf runs on: requests.get returns or raises within its timeout (line 228)
\* and nothing else in the function blocks.
FetchNext == FetchRejectBoard \/ FetchLocalFile \/ FetchBuildUrl \/ FetchAttempt

\* every step of fetch_elf moves its position or adds to its trace
fetch_progress == <<f_pc, f_attempt, f_trace>>

FairSpec == Spec /\ WF_fetch_progress(FetchNext)

(***************************************************************************)
(* Properties of fetch_elf                                                 *)
(***************************************************************************)
IsRequest(e) == e.ev = "request"
IsSleep(e) == e.ev = "sleep"
Requests == SelectSeq(f_trace, IsRequest)
Sleeps == SelectSeq(f_trace, IsSleep)
\* number of requests among the first i events of the trace
RequestsUpTo(i) == Len(SelectSeq(SubSeq(f_trace, 1, i), IsRequest))

IsRetryableResponse(resp) == resp.kind = "http" /\ resp.status \in {429, 500, 502, 503, 504}
IsTransportFailure(resp) == resp.kind = "error"
IsBinary200(resp) == resp.kind = "http" /\ resp.status = 200 /\ ~HasHtml(resp.ctype)

\* C1: when the server answers k <= 4 retryable statuses and then a 200 with a
\* non-HTML content type, the call does not end before request k+1, returns that
\* response's body and has slept exactly k times.
C1_RetryThenSuccess ==
    LET reqs == Requests
        n == Len(reqs)
    IN  (f_pc = "done" /\ n >= 1 /\ n <= 5
            /\ \A i \in 1..(n - 1) : IsRetryableResponse(reqs[i].resp))
        => /\ ~(IsRetryableResponse(reqs[n].resp) /\ n <= 4)
           /\ IsBinary200(reqs[n].resp)
                => /\ f_result = Returned(reqs[n].resp.body)
                   /\ Len(Sleeps) = n - 1

\* C2: when every request of the call was answered by a retryable status, the
\* call ends only after exactly 5 requests, with a ConnectionError.
C2_ExhaustedRetries ==
    LET reqs == Requests
        n == Len(reqs)
    IN  (f_pc = "done" /\ n >= 1 /\ \A i \in 1..n : IsRetryableResponse(reqs[i].resp))
        => /\ n = 5
           /\ f_result.kind = "ConnectionError"

\* C3: a 404 response is the last event of the call: no sleep and no request
\* follows it, and the call has failed with FileNotFoundError.
C3_NotFoundIsFinal ==
    \A i \in DOMAIN f_trace :
        (IsRequest(f_trace[i]) /\ f_trace[i].resp.kind = "http" /\ f_trace[i].resp.status = 404)
        => /\ i = Len(f_trace)
           /\ f_pc = "done"
           /\ f_result.kind = "FileNotFoundError"

C3_Witness ==
    /\ f_pc = "done"
    /\ Len(f_trace) = 1
    /\ IsRequest(f_trace[1])
    /\ f_trace[1].resp.status = 404
    /\ f_result.kind = "FileNotFoundError"

\* C4: a transport failure on one of the first 4 attempts is followed by a sleep
\* and then another request; a call whose 5 attempts all failed that way ends with
\* a ConnectionError whose cause is the error of the last attempt.
C4_TransportRetry ==
    LET reqs == Requests
        n == Len(reqs)
    IN  /\ \A i \in DOMAIN f_trace :
              (IsRequest(f_trace[i]) /\ IsTransportFailure(f_trace[i].resp) /\ RequestsUpTo(i) < 5)
              => /\ Len(f_trace) > i
                 /\ IsSleep(f_trace[i + 1])
                 /\ f_pc = "done" => (Len(f_trace) >= i + 2 /\ IsRequest(f_trace[i + 2]))
        /\ (f_pc = "done" /\ n = 5 /\ \A i \in 1..n : IsTransportFailure(reqs[i].resp))
              => f_result = Raised("ConnectionError", reqs[n].resp.err)

(***************************************************************************)
(* Properties of flash_elf                                                 *)
(***************************************************************************)
\* C5: with a board that has no entry in the table, flash_elf makes no file-system
\* or probe call at all (no temporary file, no open, connect, halt, flash_file or
\* reset) and ends as Unsupported.
C5_UnmappedBoardFailsFirst ==
    (fl_pc # "idle" /\ StripLower(fl_args.board) \notin DOMAIN BOARD_TO_JLINK_DEVICE)
    => /\ fl_trace = <<>>
       /\ fl_files = {}
       /\ fl_pc = "done" => fl_result.kind = "Unsupported"

SerialOps == {"Serial", "reset_input_buffer", "write", "read", "close"}
IsWrite(e) == e.op = "write"
Writes == SelectSeq(p_io, IsWrite)
InputKey == DecodeKey(p_args.key_string, p_args.base64_encoded)

\* C7: a key that decodes to other than 32 bytes never gets the serial port
\* opened or a byte written; the run ends with exit status 1, as InvalidKeySize
\* once the reset has succeeded.
C7_InvalidSizeNeverOpens ==
    (p_pc # "idle" /\ ~InputKey.error /\ Len(InputKey.data) # 32)
    => /\ \A i \in DOMAIN p_io : p_io[i].op \notin SerialOps
       /\ ~p_ser_open
       /\ p_pc = "done" => p_exit = 1
       /\ (p_pc = "done" /\ \E i \in DOMAIN p_io : p_io[i].op = "JLinkExe" /\ p_io[i].res = "ok")
             => p_result = "InvalidKeySize"

C7_Witness ==
    /\ p_pc = "done"
    /\ p_result = "InvalidKeySize"
    /\ p_exit = 1
    /\ Len(p_key_data) \in {31, 33}

\* C8: when the run has ended after the serial port was opened, the port is closed.
C8_OpenedPortIsClosed ==
    (p_pc = "done" /\ \E i \in DOMAIN p_io : p_io[i].op = "Serial" /\ p_io[i].res = "ok")
    => ~p_ser_open

\* number of decimal digits of a natural number
DigitCountSmall(n) == CHOOSE k \in 1..9 : n < Pow(10, k) /\ (k = 1 \/ n >= Pow(10, k - 1))
DigitCount(n) == IF n.hi = 0 THEN DigitCountSmall(n.lo) ELSE DigitCountSmall(n.hi) + 6

\* the natural number a sequence of ASCII digits denotes
RECURSIVE ParseDecimal(_)
ParseDecimal(ds) ==
    IF ds = <<>> THEN Big(0, 0)
    ELSE LET v == ParseDecimal(SubSeq(ds, 1, Len(ds) - 1))
             t == v.lo * 10 + (ds[Len(ds)] - 48)
         IN  Big(v.hi * 10 + (t \div LIMB), t % LIMB)

\* C9: a successful run has made exactly 32 + len(str(utc_ms)) + 1 write calls of
\* one byte each: the 32 key bytes in order, then the decimal digits of utc_ms,
\* then a newline; nothing is read from the port.
C9_WriteSequence ==
    (p_pc = "done" /\ p_exit = 0)
    => LET w == Writes
           nd == DigitCount(p_utc_ms)
       IN  /\ Len(InputKey.data) = 32
           /\ Len(w) = 32 + nd + 1
           /\ \A i \in DOMAIN w : Len(w[i].arg) = 1 /\ w[i].res = "ok"
           /\ \A i \in 1..32 : w[i].arg[1] = InputKey.data[i]
           /\ \A i \in 33..(32 + nd) : w[i].arg[1] \in 48..57
           /\ ParseDecimal([i \in 1..nd |-> w[32 + i].arg[1]]) = p_utc_ms
           /\ w[32 + nd + 1].arg = <<10>>
           /\ \A i \in DOMAIN p_io :
                 p_io[i].op \in {"JLinkExe", "sleep", "Serial", "reset_input_buffer", "write", "close"}

C9_Witness ==
    /\ p_pc = "done"
    /\ p_exit = 0
    /\ p_utc_ms = Big(1762122, 42)
    /\ Len(Writes) = 32 + 13 + 1

\* C10: every serial call comes after a reset that exited with 0 and after the
\* settle delay; a reset that exits nonzero ends the run as ResetFailed with exit
\* status 1 and without any serial call.
C10_ResetBeforeSerial ==
    /\ \A i \in DOMAIN p_io :
          p_io[i].op \in SerialOps
          => \E j, k \in 1..(i - 1) :
                /\ j < k
                /\ p_io[j].op = "JLinkExe" /\ p_io[j].res = "ok"
                /\ p_io[k] = IoEvent("sleep", 3000, "ok")
    /\ \A i \in DOMAIN p_io :
          (p_io[i].op = "JLinkExe" /\ p_io[i].res = "nonzero")
          => /\ p_pc = "done"
             /\ p_result = "ResetFailed"
             /\ p_exit = 1
             /\ ~p_ser_open
             /\ \A j \in DOMAIN p_io : p_io[j].op \notin SerialOps

C10_Witness ==
    /\ p_ser_open
    /\ p_io[Len(p_io)].op = "Serial"
    /\ p_io[1].op = "JLinkExe"

(***************************************************************************)
(* Properties of _patch_symbol and patch_elf                               *)
(***************************************************************************)
\* a finished call of _patch_symbol on its own
PatchSymbolDone == pt_pc = "done" /\ pt_call.op = "_patch_symbol"

\* the section has bytes in the file
FileBacked(sec) == sec.sh_type # SHT_NOBITS

\* the n bytes of the symbol lie inside its section
InsideSection(sym, sec, n) ==
    sym.st_value >= sec.sh_addr /\ sym.st_value + n <= sec.sh_addr + sec.sh_size

\* what the name resolves to on the image given to the call
Resolved == find_symbol(pt_orig, pt_call.symbol_name)

\* the name resolves to a section-backed symbol on the image given to the call
ResolvesSectionBacked == Resolved.kind = "found" /\ FileBacked(Resolved.sec)

\* resolving the name again on the buffer after the call and reading n bytes at
\* section.file_offset + (symbol.address - section.virtual_address) gives data
ReadsBack(name, n, data) ==
    LET r == find_symbol(pt_buf, name)
    IN  /\ r.kind = "found"
        /\ BufRead(pt_buf, r.sec.sh_offset + (r.sym.st_value - r.sec.sh_addr), n) = data

\* C11: when the name resolves to a section-backed symbol of declared size N on a
\* valid image and the payload has exactly N bytes, _patch_symbol succeeds, and
\* resolving the name on the patched image and reading N bytes at the resolved
\* file offset gives the payload.
C11_RoundTrip ==
    ( /\ PatchSymbolDone
      /\ ResolvesSectionBacked
      /\ Resolved.sym.st_size = Len(pt_call.data)
      /\ InsideSection(Resolved.sym, Resolved.sec, Len(pt_call.data)) )
    => /\ pt_result = "ok"
       /\ ReadsBack(pt_call.symbol_name, Len(pt_call.data), pt_call.data)

C11_Witness ==
    /\ PatchSymbolDone
    /\ ResolvesSectionBacked
    /\ Resolved.sym.st_size = Len(pt_call.data)
    /\ Len(pt_call.data) = 8
    /\ pt_result = "ok"
    /\ pt_buf # pt_orig
    /\ ReadsBack("utc_time", 8, pt_call.data)

\* C12: when the resolved symbol's declared size is nonzero and differs from the
\* payload length, _patch_symbol fails with SizeMismatch and the image has the
\* bytes and the length it had before the call.
C12_SizeMismatchLeavesImage ==
    ( /\ PatchSymbolDone
      /\ Resolved.kind = "found"
      /\ Resolved.sym.st_size # 0
      /\ Resolved.sym.st_size # Len(pt_call.data) )
    => /\ pt_result = "SizeMismatch"
       /\ pt_buf = pt_orig
       /\ Len(pt_buf) = Len(pt_orig)

C12_Witness ==
    /\ PatchSymbolDone
    /\ Resolved.kind = "found"
    /\ Resolved.sym.st_size = 4
    /\ Len(pt_call.data) = 3
    /\ pt_result = "SizeMismatch"
    /\ pt_buf = pt_orig

\* the sections of the image that are symbol tables, by index
SymbolTableIndexes(buf) ==
    {n \in 0..(NumSections(buf) - 1) : HasSection(buf, n) /\ IsSymbolTableSection(GetSection(buf, n))}

\* the entries of the symbol tables of the image whose name is `name`
Matches(buf, name) ==
    LET all == UNION {{GetSymbol(buf, GetSection(buf, n), k) :
                          k \in 0..(NumSymbols(GetSection(buf, n)) - 1)} :
                      n \in SymbolTableIndexes(buf)}
    IN  {sym \in all : sym.name = name}

\* entry a comes before entry b in the scan: tables in section order, entries in
\* table order
ScannedBefore(a, b) == a.table < b.table \/ (a.table = b.table /\ a.entry < b.entry)

\* the entry is owned by a section without file bytes, the zero-initialized-data
\* section of the specification
InZeroInitSection(buf, sym) ==
    /\ ShndxKind(sym.st_shndx) = "int"
    /\ HasSection(buf, sym.st_shndx)
    /\ ~FileBacked(GetSection(buf, sym.st_shndx))

\* the matching entries that are not to be skipped
Candidates(buf, name) == {sym \in Matches(buf, name) : ~InZeroInitSection(buf, sym)}

\* the first of them in the scan
FirstCandidate(buf, name) ==
    CHOOSE c \in Candidates(buf, name) :
        \A d \in Candidates(buf, name) : d = c \/ ScannedBefore(c, d)

\* C13: resolution never returns a target owned by a section without file bytes;
\* such an entry is skipped, a same-named section-backed entry later in the scan
\* is returned, and without one the result is NotFound.
C13_NeverReturnsZeroInit ==
    PatchSymbolDone =>
        LET name == pt_call.symbol_name
            cands == Candidates(pt_orig, name)
        IN  /\ Resolved.kind = "found" => FileBacked(Resolved.sec)
            /\ cands = {} => pt_result = "NotFound"
            /\ (cands # {} /\ ShndxKind(FirstCandidate(pt_orig, name).st_shndx) = "int")
                   => /\ Resolved.kind = "found"
                      /\ Resolved.sym = FirstCandidate(pt_orig, name)

\* C14: resolution decides on the first matching entry that is not skipped:
\* Undefined for the undefined section index, Unpatchable for another reserved
\* index, NotFound when no entry of the name is left after skipping; in each of
\* these cases the image is not written.
C14_FirstMatchDecides ==
    PatchSymbolDone =>
        LET name == pt_call.symbol_name
            cands == Candidates(pt_orig, name)
            first == FirstCandidate(pt_orig, name)
        IN  /\ (cands # {} /\ ShndxKind(first.st_shndx) = "SHN_UNDEF")
                   => pt_result = "UndefinedSymbol" /\ pt_buf = pt_orig
            /\ (cands # {} /\ ShndxKind(first.st_shndx) = "str")
                   => pt_result = "UnpatchableSymbol" /\ pt_buf = pt_orig
            /\ cands = {} => pt_result = "NotFound" /\ pt_buf = pt_orig

\* the file offset of the resolved symbol on the image given to the call
ResolvedOffset == Resolved.sec.sh_offset + (Resolved.sym.st_value - Resolved.sec.sh_addr)

\* C15: a successful _patch_symbol changes only the len(data) bytes starting at
\* the resolved file offset: the image keeps its length and every byte outside
\* that range, for every offset and payload the operation accepts.
C15_WritesInPlace ==
    (PatchSymbolDone /\ pt_result = "ok") =>
        /\ Len(pt_buf) = Len(pt_orig)
        /\ \A i \in 1..Len(pt_orig) :
               (i <= ResolvedOffset \/ i > ResolvedOffset + Len(pt_call.data))
                   => (i <= Len(pt_buf) /\ pt_buf[i] = pt_orig[i])

\* C16 as stated: for a section-backed symbol of declared size 0, _patch_symbol
\* succeeds for every payload length and resolving the symbol again and reading
\* len(payload) bytes at its offset gives the payload.
C16_AnyLengthRoundTrip ==
    (PatchSymbolDone /\ ResolvesSectionBacked /\ Resolved.sym.st_size = 0)
    => /\ pt_result = "ok"
       /\ ReadsBack(pt_call.symbol_name, Len(pt_call.data), pt_call.data)

\* C16: for a section-backed symbol of declared size 0, _patch_symbol succeeds for
\* every payload length, and when the payload ends inside the symbol's section,
\* resolving the symbol again and reading len(payload) bytes at its offset gives
\* the payload.
C16_FittingLengthRoundTrip ==
    (PatchSymbolDone /\ ResolvesSectionBacked /\ Resolved.sym.st_size = 0)
    => /\ pt_result = "ok"
       /\ InsideSection(Resolved.sym, Resolved.sec, Len(pt_call.data))
              => ReadsBack(pt_call.symbol_name, Len(pt_call.data), pt_call.data)

C16_Witness ==
    /\ PatchSymbolDone
    /\ ResolvesSectionBacked
    /\ Resolved.sym.st_size = 0
    /\ Len(pt_call.data) = 8
    /\ InsideSection(Resolved.sym, Resolved.sec, 8)
    /\ pt_result = "ok"
    /\ pt_buf # pt_orig
    /\ ReadsBack(pt_call.symbol_name, 8, pt_call.data)

\* a finished call of patch_elf
PatchElfDone == pt_pc = "done" /\ pt_call.op = "patch_elf"

\* the byte order the header of the image declares
DeclaredEndianness(buf) == IF buf[1] = ELFDATA2LSB THEN "little" ELSE "big"

\* the 64-bit value of eight bytes in the given byte order, as 16-bit limbs
from_bytes(bytes, endian) ==
    LET big == IF endian = "big" THEN bytes ELSE [i \in 1..Len(bytes) |-> bytes[Len(bytes) + 1 - i]]
    IN  [i \in 1..4 |-> big[2 * i - 1] * 256 + big[2 * i]]

\* the buffer the timestamp patch of patch_elf was given
BeforeTimePatch == pt_log[Len(pt_log)].before

\* C17: when patch_elf has patched the clock value v into a section-backed
\* utc_time, the 8 bytes at the symbol's offset, decoded in the byte order the
\* image declares, are v, and they are the 8 bytes the patch was given.
C17_TimestampRoundTrip ==
    ( /\ PatchElfDone
      /\ pt_result = "ok"
      /\ LET r == find_symbol(BeforeTimePatch, "utc_time")
         IN  r.kind = "found" /\ FileBacked(r.sec) /\ InsideSection(r.sym, r.sec, 8) )
    => LET r == find_symbol(pt_buf, "utc_time")
           bytes == BufRead(pt_buf, r.sec.sh_offset + (r.sym.st_value - r.sec.sh_addr), 8)
       IN  /\ r.kind = "found"
           /\ Len(bytes) = 8
           /\ bytes = pt_log[Len(pt_log)].data
           /\ from_bytes(bytes, DeclaredEndianness(pt_orig)) = pt_utc_ms

C17_Witness ==
    /\ PatchElfDone
    /\ pt_result = "ok"
    /\ DeclaredEndianness(pt_orig) = "big"
    /\ pt_utc_ms = U64(0, 395, 53221, 26624)
    /\ LET r == find_symbol(pt_buf, "utc_time")
       IN  /\ r.kind = "found"
           /\ FileBacked(r.sec)
           /\ BufRead(pt_buf, r.sec.sh_offset + (r.sym.st_value - r.sec.sh_addr), 8)
                  = <<0, 0, 1, 139, 207, 229, 104, 0>>

(***************************************************************************)
(* Properties of fetch_elf: overrides, content type, other statuses        *)
(***************************************************************************)
FetchDone == f_pc = "done"

\* C18: when the local-file override is set, fetch_elf makes no request and no
\* sleep, and (for a non-blank board and a readable file) returns the bytes of
\* the file, whether or not the URL override is set.
C18_LocalFileWins ==
    (FetchDone /\ f_env.local_file # "") =>
        /\ f_trace = <<>>
        /\ f_url = None
        /\ (BoardStripped(f_env.board) # "" /\ LocalFileReadable(f_env.local_file))
               => f_result = Returned(LocalFileBytes(f_env.local_file))

C18_Witness ==
    /\ FetchDone
    /\ f_env.local_file = "good.elf"
    /\ f_env.url_override # ""
    /\ f_result = Returned(LocalFileBytes("good.elf"))
    /\ f_trace = <<>>

\* the declared content type names HTML, in any letter case
DeclaresHtml(ctype) == ctype \in {"text/html", "TEXT/HTML; charset=utf-8"}

\* the declared content type names a textual payload
DeclaresText(ctype) == DeclaresHtml(ctype) \/ ctype = "text/plain"

\* request i of the trace got a response with a success status
IsSuccessResponse(i) ==
    /\ IsRequest(f_trace[i])
    /\ f_trace[i].resp.kind = "http"
    /\ f_trace[i].resp.status >= 200
    /\ f_trace[i].resp.status < 300

\* the call ended right after request i by raising exc
EndsWith(i, exc) == i = Len(f_trace) /\ FetchDone /\ f_result.kind = exc

\* C19 as stated: a successful response whose declared content type is HTML or
\* textual makes the call fail as Invalid; its body is not returned and no
\* further request is made.
C19_TextualIsInvalid ==
    \A i \in DOMAIN f_trace :
        (IsSuccessResponse(i) /\ DeclaresText(f_trace[i].resp.ctype))
            => EndsWith(i, "ValueError")

\* C19: a successful response whose declared content type contains "html", in
\* any letter case, makes the call fail as Invalid (ValueError); its body is not
\* returned and no further request is made.
C19_HtmlIsInvalid ==
    \A i \in DOMAIN f_trace :
        (IsSuccessResponse(i) /\ DeclaresHtml(f_trace[i].resp.ctype))
            => EndsWith(i, "ValueError")

C19_Witness ==
    /\ FetchDone
    /\ Len(f_trace) = 1
    /\ IsSuccessResponse(1)
    /\ f_trace[1].resp.ctype = "TEXT/HTML; charset=utf-8"
    /\ f_trace[1].resp.body = MaxBody
    /\ f_result = Raised("ValueError", None)

FetchBounded ==
    /\ Len(Requests) <= 5
    /\ \A i \in DOMAIN f_trace :
           IsSleep(f_trace[i]) =>
               /\ i > 1 /\ IsRequest(f_trace[i - 1])
               /\ IF i < Len(f_trace) THEN IsRequest(f_trace[i + 1]) ELSE f_pc = "loop"
    /\ \A k \in 2..Len(Sleeps) : Sleeps[k].sleep = 2 * Sleeps[k - 1].sleep

ProbeOrder == <<"open", "set_tif", "connect", "halt", "flash_file", "reset">>

IsProbeStep(c) == c.call \in {ProbeOrder[i] : i \in DOMAIN ProbeOrder}

\* the calls made on the probe inside the try block, in the order made
ProbeCalls == SelectSeq(fl_trace, IsProbeStep)

\* C22: the probe is driven in the order open, select SWD, connect at 4000 kHz,
\* halt, flash_file, reset; a step runs only after all steps before it succeeded,
\* a failed step is the last one, and the call then raises RuntimeError carrying
\* the cause of that step; the call returns only after all six steps.
C22_ProbeOrder ==
    /\ Len(ProbeCalls) <= Len(ProbeOrder)
    /\ \A i \in DOMAIN ProbeCalls : ProbeCalls[i].call = ProbeOrder[i]
    /\ \A i \in DOMAIN ProbeCalls :
           /\ ProbeCalls[i].call = "set_tif" => ProbeCalls[i].arg = "SWD"
           /\ ProbeCalls[i].call = "connect" => ProbeCalls[i].arg = <<fl_device, 4000>>
    /\ fl_exc.kind = "RuntimeError" =>
           /\ ProbeCalls # <<>>
           /\ fl_exc.cause = <<"JLinkException", ProbeCalls[Len(ProbeCalls)].call>>
           /\ fl_pc \in {"release", "unlink", "done"}
    /\ (fl_pc = "done" /\ ProbeCalls # <<>> /\ Len(ProbeCalls) < Len(ProbeOrder)) =>
           /\ fl_result.kind = "RuntimeError"
           /\ fl_result.cause = <<"JLinkException", ProbeCalls[Len(ProbeCalls)].call>>
    /\ (fl_pc = "done" /\ fl_result.kind = "returned") => Len(ProbeCalls) = Len(ProbeOrder)

C22_Witness ==
    /\ fl_pc = "done"
    /\ Len(ProbeCalls) = 5
    /\ ProbeCalls[4].call = "halt"
    /\ ProbeCalls[5].call = "flash_file"
    /\ fl_result = Raised("RuntimeError", <<"JLinkException", "flash_file">>)

(***************************************************************************)
(* Properties of the flash command                                         *)
(***************************************************************************)
OrchDone == o_pc = "done"

\* the position of a step in the pipeline
StepIndex(step) == CHOOSE i \in DOMAIN OrchSteps : OrchSteps[i] = step

\* C23: the command calls its steps in the order register, fetch, patch, flash
\* (after reading the credentials); a step that fails is the last step called and
\* the entry point then returns a nonzero exit code; flash_elf is called only
\* with the image that fetch_elf returned and patch_elf patched completely.
C23_FailureIsFatal ==
    /\ \A i \in DOMAIN o_log : o_log[i].step = OrchSteps[i]
    /\ \A i \in DOMAIN o_log :
           o_log[i].outcome # "ok" =>
               /\ i = Len(o_log)
               /\ o_pc \in {"raise", "done"}
               /\ OrchDone => o_exit # 0
    /\ \A i \in DOMAIN o_log :
           o_log[i].step = "flash_elf" =>
               /\ o_log[StepIndex("fetch_elf")].outcome = "ok"
               /\ o_log[StepIndex("patch_elf")].outcome = "ok"
               /\ o_log[StepIndex("fetch_elf") + 1].buf \in OrchImages
               /\ \E utc_ms \in PatchClockValues :
                      LET first == patch_symbol(o_log[StepIndex("patch_elf")].buf,
                                                B64Decode(o_device_key).data, "master_key")
                          second == patch_symbol(first.buf,
                                                 to_bytes(utc_ms, DeclaredEndianness(first.buf)),
                                                 "utc_time")
                      IN  /\ first.status = "ok"
                          /\ second.status = "ok"
                          /\ o_log[i].buf = second.buf
    /\ (OrchDone /\ o_exit = 0) =>
           /\ Len(o_log) = Len(OrchSteps)
           /\ \A i \in DOMAIN o_log : o_log[i].outcome = "ok"

C23_Witness ==
    /\ OrchDone
    /\ Len(o_log) = StepIndex("patch_elf")
    /\ o_log[StepIndex("fetch_elf")].outcome = "ok"
    /\ o_log[StepIndex("patch_elf")].outcome = "SizeMismatch"
    /\ o_exit = 2

(***************************************************************************)
(* Order and failure of the two patches                                    *)
(***************************************************************************)
\* a provisioning run: patch_elf, or main of embed-key.py
IsPatchRun == pt_call.op \in {"patch_elf", "embed-key"}

\* C24: in a provisioning run master_key is patched before utc_time, and when the
\* key patch fails (the key does not decode, the symbol does not resolve, its
\* size differs) the timestamp patch is not attempted and the image is unchanged.
C24_KeyBeforeTime ==
    IsPatchRun =>
        /\ Len(pt_log) <= 2
        /\ pt_log # <<>> => /\ pt_log[1].symbol_name = "master_key"
                            /\ pt_log[1].before = pt_orig
        /\ Len(pt_log) = 2 => /\ pt_log[2].symbol_name = "utc_time"
                              /\ pt_log[1].status = "ok"
        /\ (pt_log # <<>> /\ pt_log[1].status # "ok") =>
               /\ Len(pt_log) = 1
               /\ pt_buf = pt_orig
               /\ pt_pc = "done"
               /\ pt_result = pt_log[1].status
        /\ pt_result = "binascii.Error" => pt_log = <<>> /\ pt_buf = pt_orig /\ pt_pc = "done"

C24_Witness ==
    /\ IsPatchRun
    /\ pt_pc = "done"
    /\ Len(pt_log) = 1
    /\ pt_log[1].symbol_name = "master_key"
    /\ pt_result = "SizeMismatch"
    /\ find_symbol(pt_orig, "utc_time").kind = "found"
    /\ pt_buf = pt_orig

(***************************************************************************)
(* A failed serial write in provision_key                                  *)
(***************************************************************************)
IsFailedWrite(e) == e.op = "write" /\ e.res # "ok"

CountOp(op) == Cardinality({i \in DOMAIN p_io : p_io[i].op = op})

\* C25: when a serial write fails, after any number of key bytes or inside the
\* timestamp frame, no further byte is written (only the port is closed), the run
\* ends with exit status 1 and not as a success, and nothing is started again: one
\* reset, one opening of the port.
C25_FailedWriteIsFinal ==
    \A i \in DOMAIN p_io :
        IsFailedWrite(p_io[i]) =>
            /\ \A j \in DOMAIN p_io : j > i => p_io[j].op = "close"
            /\ Len(p_io) <= i + 1
            /\ p_pc \in {"close", "done"}
            /\ p_pc = "done" => /\ p_exit = 1
                                /\ p_result # "success"
                                /\ ~p_ser_open
            /\ CountOp("JLinkExe") = 1
            /\ CountOp("Serial") = 1

C25_Witness ==
    /\ p_pc = "done"
    /\ Len(Writes) = 33 + 3
    /\ IsFailedWrite(Writes[33 + 3])
    /\ \A i \in 1..(33 + 2) : Writes[i].res = "ok"
    /\ p_exit = 1
    /\ p_result = "Unexpected"

(***************************************************************************)
(* patch_elf over its two patches                                          *)
(***************************************************************************)
\* the key patch returned normally and the run ended with an exception
KeyPatchedThenRaised ==
    /\ IsPatchRun
    /\ pt_pc = "done"
    /\ pt_log # <<>>
    /\ pt_log[1].status = "ok"
    /\ pt_result # "ok"

\* where master_key resolves on the image given to the run
KeyResolved == find_symbol(pt_orig, "master_key")

KeyOffset == KeyResolved.sec.sh_offset + (KeyResolved.sym.st_value - KeyResolved.sec.sh_addr)

\* C26: patch_elf is not atomic: when the master_key patch succeeded and the
\* utc_time patch then failed, the run raises and the buffer is the original with
\* the decoded key at the master_key offset; it has the same length and no byte
\* outside the key's bytes is changed.
C26_KeyPatchStays ==
    KeyPatchedThenRaised =>
        LET key == pt_log[1].data IN
        /\ key = B64Decode(pt_call.key).data
        /\ KeyResolved.kind = "found"
        /\ Len(pt_buf) = Len(pt_orig)
        /\ \A i \in 1..Len(pt_orig) :
              IF i > KeyOffset /\ i <= KeyOffset + Len(key)
              THEN pt_buf[i] = key[i - KeyOffset]
              ELSE pt_buf[i] = pt_orig[i]

C26_Witness ==
    /\ KeyPatchedThenRaised
    /\ Len(pt_log) = 2
    /\ pt_log[2].symbol_name = "utc_time"
    /\ pt_result = "NotFound"
    /\ pt_buf # pt_orig
    /\ Len(pt_log[1].data) = KeyResolved.sym.st_size

====
